---- MODULE Spec2Model ----
(***************************************************************************)
(* Model of the convoy merge evaluation, POST /api/convoys/suggest_merge   *)
(* (src/routers/convoy_routes.py, suggest_merge).                          *)
(*                                                                         *)
(* Numbers.  Python floats are modelled in fixed point: every quantity     *)
(* (kg, km, seconds, minutes, litres) is an integer count of 1/10000 of    *)
(* its unit, so 30.0 min is 300000 and 5.001 km is 50010.  The inputs are  *)
(* chosen so that /60 and *0.3 are exact in this representation, and so    *)
(* that no value lies exactly half way between two 2-decimal numbers.      *)
(*                                                                         *)
(* Optional values.  Python's None is the empty sequence, a present value  *)
(* x is the one-element sequence <<x>>.                                    *)
(***************************************************************************)
EXTENDS Integers, Sequences, FiniteSets, TLC

\* ------------------------------------------------------------------------
\* Bounds of the model
\* ------------------------------------------------------------------------
MaxVehicles == 2
\* concurrent add_vehicle_to_convoy requests
MaxWorkers == 2
\* the convoy_id and vehicle_id counters stop here
MaxConvoyId == 2
MaxVehicleId == 3
\* the clock stops after this many ticks
MaxTicks == 4

\* ------------------------------------------------------------------------
\* Fixed point
\* ------------------------------------------------------------------------
Unit == 100 * 100

None == <<>>
Some(x) == <<x>>
IsNone(o) == o = <<>>
Val(o) == o[1]

\* round(x, 2): nearest multiple of 0.01, ties to the even hundredth
RoundPos(x) ==
  LET q == x \div 100
      r == x % 100
  IN  IF r < 50 THEN q * 100
      ELSE IF r > 50 THEN (q + 1) * 100
      ELSE IF q % 2 = 0 THEN q * 100 ELSE (q + 1) * 100

round2(x) == IF x >= 0 THEN RoundPos(x) ELSE 0 - RoundPos(0 - x)

\* ------------------------------------------------------------------------
\* Inputs of a request
\* ------------------------------------------------------------------------
CapacityValues == {1000 * Unit, 2000 * Unit}
LoadValues == {1000 * Unit, 5000 * Unit}

\* positions on one meridian, in km of arc (see haversine_km)
SourceA == 0 * Unit
DestA == 100 * Unit
SourceB == 20 * Unit
\* a coordinate field that is None in the request
NoneCoord == 0 - 1
\* 4.999 km, 5 km and 5.001 km from A's destination, or missing
DestBValues == {DestA + 49990, DestA + 5 * Unit, DestA + 50010, NoneCoord}

\* the vehicle lists of up to MaxVehicles vehicles, lightest first (the sum of
\* the capacities does not depend on the order)
VehicleLists ==
  {vs \in UNION {[1..n -> [capacity_kg : CapacityValues]] : n \in 0..MaxVehicles} :
     \A i \in 1..(Len(vs) - 1) : vs[i].capacity_kg <= vs[i + 1].capacity_kg}

ConvoysA ==
  [vehicles : VehicleLists, total_load_kg : LoadValues,
   source_lat : {SourceA}, source_lon : {0},
   destination_lat : {DestA}, destination_lon : {0}]

ConvoysB ==
  [vehicles : VehicleLists, total_load_kg : LoadValues,
   source_lat : {SourceB}, source_lon : {0},
   destination_lat : DestBValues, destination_lon : {0}]

\* 30.0 (the default) and 30.001 minutes; 5.0 km (the default)
MaxExtraValues == {30 * Unit, 30 * Unit + 10}
RadiusValues == {5 * Unit}

\* what the routing service does with one GET
\* 3600 s and 5400.06 s: a detour of 30.001 minutes
DurationValues == {3600 * Unit, 5400 * Unit + 600}
OsrmReplies ==
  {[kind |-> k, duration |-> None] :
      k \in {"network_error", "http_error", "timeout", "no_routes"}}
  \cup {[kind |-> "ok", duration |-> Some(d)] : d \in DurationValues}

\* ------------------------------------------------------------------------
\* State
\* ------------------------------------------------------------------------
VARIABLES
  pc,               \* position of the request handler
  convoy_a, convoy_b, max_extra_minutes, same_dest_radius_km,  \* parameters
  avail_a, avail_b, a_can_absorb_b, b_can_absorb_a,
  dest_dist_km,
  direct_dur_A, pickup_dur_A, extra_A,
  direct_dur_B, pickup_dur_B, extra_B,
  requests,         \* GETs sent to the routing service and their replies
  response,         \* <<>> until the handler returns, then the one-element sequence holding the returned body
  \* the database (src/routers/convoy_routes.py, src/auth/auth.py)
  db_convoys,       \* rows of table convoys
  db_vehicles,      \* rows of table vehicles
  db_routes,        \* rows of table routes
  db_users,         \* rows of table users
  db_seq,           \* the serial counters behind the *_id columns
  \* the convoy endpoints
  adding,           \* add_vehicle_to_convoy requests in flight, per worker
  store_reply,      \* the last reply of a convoy endpoint
  \* the auth endpoints
  otp_store,        \* auth.py's module-level dict
  now,              \* time.time(), in seconds
  auth_reply        \* the last reply of an auth endpoint

params == <<convoy_a, convoy_b, max_extra_minutes, same_dest_radius_km>>
capacityLocals == <<avail_a, avail_b, a_can_absorb_b, b_can_absorb_a>>
durationsA == <<direct_dur_A, pickup_dur_A, extra_A>>
durationsB == <<direct_dur_B, pickup_dur_B, extra_B>>
mergeVars == <<pc, params, capacityLocals, dest_dist_km, durationsA, durationsB,
               requests, response>>
database == <<db_convoys, db_vehicles, db_routes, db_users, db_seq>>
storeVars == <<adding, store_reply>>
authVars == <<otp_store, now, auth_reply>>
vars == <<mergeVars, database, storeVars, authVars>>

NoConvoy == [vehicles |-> <<>>, total_load_kg |-> 0,
             source_lat |-> 0, source_lon |-> 0,
             destination_lat |-> 0, destination_lon |-> 0]

\* ------------------------------------------------------------------------
\* Helpers of suggest_merge
\* ------------------------------------------------------------------------
RECURSIVE SumCapacity(_)
SumCapacity(vs) ==
  IF vs = <<>> THEN 0 ELSE vs[1].capacity_kg + SumCapacity(Tail(vs))

total_capacity(convoy) == SumCapacity(convoy.vehicles)

\* variant: the load already carried is not subtracted
spare_capacity_without_load(convoy) == total_capacity(convoy)

spare_capacity(convoy) == total_capacity(convoy) - convoy.total_load_kg

can_absorb(avail, guest) == avail >= guest.total_load_kg

no_capacity(aAbsorbsB, bAbsorbsA) == ~(aAbsorbsB \/ bAbsorbsA)

Abs(x) == IF x >= 0 THEN x ELSE 0 - x

\* great-circle distance of two points of one meridian: the length of the arc
haversine_km(lat1, lon1, lat2, lon2) == Abs(lat1 - lat2)

\* arithmetic on a missing coordinate raises TypeError
haversine_raises(lat1, lon1, lat2, lon2) == NoneCoord \in {lat1, lon1, lat2, lon2}

\* variant: the distance is compared as it is presented, rounded
too_far_rounded(dist, radius) == round2(dist) > radius

too_far(dist, radius) == dist > radius

\* the coordinate string of the URL: each (lat, lon) point becomes "lon,lat"
coords(points) == [i \in 1..Len(points) |-> <<points[i][2], points[i][1]>>]

\* variant: a failed query costs nothing
osrm_duration_zero_on_failure(reply) ==
  IF reply.kind = "ok" THEN reply.duration ELSE Some(0)

\* the duration osrm_duration returns for a reply of the routing service
osrm_duration(reply) ==
  IF reply.kind = "ok" THEN reply.duration ELSE None

\* variant: a missing duration counts as 0 seconds
extra_minutes_missing_as_zero(direct, pickup) ==
  Some(((IF IsNone(pickup) THEN 0 ELSE Val(pickup))
         - (IF IsNone(direct) THEN 0 ELSE Val(direct))) \div 60)

extra_minutes(direct, pickup) ==
  IF ~IsNone(direct) /\ ~IsNone(pickup)
  THEN Some((Val(pickup) - Val(direct)) \div 60)
  ELSE None

\* variant: every costed direction is a candidate, capacity-feasible or not
build_candidates_any_capacity(aAbsorbsB, xA, bAbsorbsA, xB) ==
  (IF ~IsNone(xA) THEN <<[scenario |-> "A_picks_B", extra |-> Val(xA)]>> ELSE <<>>)
  \o
  (IF ~IsNone(xB) THEN <<[scenario |-> "B_picks_A", extra |-> Val(xB)]>> ELSE <<>>)

build_candidates(aAbsorbsB, xA, bAbsorbsA, xB) ==
  (IF aAbsorbsB /\ ~IsNone(xA) THEN <<[scenario |-> "A_picks_B", extra |-> Val(xA)]>> ELSE <<>>)
  \o
  (IF bAbsorbsA /\ ~IsNone(xB) THEN <<[scenario |-> "B_picks_A", extra |-> Val(xB)]>> ELSE <<>>)

\* variant: the last element with the smallest key
RECURSIVE min_by_extra_last(_)
min_by_extra_last(cands) ==
  IF Len(cands) = 1 THEN cands[1]
  ELSE LET rest == min_by_extra_last(Tail(cands))
       IN  IF rest.extra <= cands[1].extra THEN rest ELSE cands[1]

\* min(candidates, key=...): the first element with the smallest key
RECURSIVE min_by_extra(_)
min_by_extra(cands) ==
  IF Len(cands) = 1 THEN cands[1]
  ELSE LET rest == min_by_extra(Tail(cands))
       IN  IF rest.extra < cands[1].extra THEN rest ELSE cands[1]

\* variant: the rounded extra time is compared
within_threshold_rounded(extra_min, max_extra) == round2(extra_min) <= max_extra

within_threshold(extra_min, max_extra) == extra_min <= max_extra

\* variant: 0.03 litres per km
fuel_savings_hundredth(dist) == (dist * 3) \div 100

\* dest_dist_km * 0.3
fuel_savings(dist) == (dist * 3) \div 10

\* ------------------------------------------------------------------------
\* The JSON bodies suggest_merge returns.  A formatted reason is the tuple of
\* its fixed text and the values formatted into it.
\* ------------------------------------------------------------------------
NoCapacityReason == "No convoy has enough spare capacity to absorb the other"
NoDetourReason == "Could not calculate detour durations or no capacity"

no_capacity_verdict(availA, availB, a, b) ==
  [can_merge |-> FALSE,
   reason |-> <<NoCapacityReason>>,
   convoy_a_spare_kg |-> round2(availA),
   convoy_b_spare_kg |-> round2(availB),
   convoy_a_load_kg |-> round2(a.total_load_kg),
   convoy_b_load_kg |-> round2(b.total_load_kg)]

too_far_verdict(dist, radius) ==
  [can_merge |-> FALSE,
   reason |-> <<"Destinations too far apart", round2(dist), radius>>,
   dest_distance_km |-> round2(dist)]

no_candidates_verdict(xA, xB) ==
  [can_merge |-> FALSE,
   reason |-> <<NoDetourReason>>,
   extra_A |-> xA,
   extra_B |-> xB]

feasible_verdict(best, dist, availA, availB) ==
  [can_merge |-> TRUE,
   reason |-> <<"feasible with extra time", best.scenario, best.extra>>,
   scenario |-> best.scenario,
   extra_minutes |-> round2(best.extra),
   dest_distance_km |-> round2(dist),
   fuel_savings_liters |-> round2(fuel_savings(dist)),
   convoy_a_spare_kg |-> round2(availA),
   convoy_b_spare_kg |-> round2(availB)]

\* variant: the refused direction is also reported as scenario
over_threshold_verdict_with_scenario(best, max_extra) ==
  [can_merge |-> FALSE,
   reason |-> <<"Best scenario costs extra", best.scenario, best.extra, max_extra>>,
   scenario |-> best.scenario,
   extra_minutes |-> round2(best.extra)]

over_threshold_verdict(best, max_extra) ==
  [can_merge |-> FALSE,
   reason |-> <<"Best scenario costs extra", best.scenario, best.extra, max_extra>>,
   extra_minutes |-> round2(best.extra)]

TypeErrorMessage == "unsupported operand type(s): 'NoneType'"

\* variant: the fault is re-raised as an HTTP 500, as the other handlers do
error_as_http_500(message) ==
  [status_code |-> 500, detail |-> message]

\* except Exception as e: the message of the fault becomes the reason
error_verdict(message) ==
  [can_merge |-> FALSE,
   reason |-> <<"Error", message>>]

\* lines 385-420: candidates, the cheapest one, the threshold
decide(aAbsorbsB, xA, bAbsorbsA, xB, dist, availA, availB, max_extra) ==
  LET candidates == build_candidates(aAbsorbsB, xA, bAbsorbsA, xB)
  IN  IF candidates = <<>>
      THEN no_candidates_verdict(xA, xB)
      ELSE LET best == min_by_extra(candidates)
           IN  IF within_threshold(best.extra, max_extra)
               THEN feasible_verdict(best, dist, availA, availB)
               ELSE over_threshold_verdict(best, max_extra)

\* ------------------------------------------------------------------------
\* Initial state: the server is up, no request is being evaluated
\* ------------------------------------------------------------------------
ClearedLocals ==
  /\ avail_a = None /\ avail_b = None
  /\ a_can_absorb_b = FALSE /\ b_can_absorb_a = FALSE
  /\ dest_dist_km = None
  /\ direct_dur_A = None /\ pickup_dur_A = None /\ extra_A = None
  /\ direct_dur_B = None /\ pickup_dur_B = None /\ extra_B = None
  /\ requests = <<>>
  /\ response = <<>>

\* the workers of the server's thread pool that serve the convoy endpoints
Workers == 1..MaxWorkers

NoReply == [op |-> "none"]
Idle == [pc |-> "idle"]

\* The database outlives the server.  At start it holds one convoy with one
\* vehicle and one user, stored earlier.
SeedConvoys == {[convoy_id |-> 1, convoy_name |-> "alpha"]}
SeedVehicles == {[vehicle_id |-> 1, convoy_id |-> 1, registration_number |-> "KA01"]}
SeedUsers == {[user_id |-> 1, email |-> "a@army.in", password_hash |-> <<"bcrypt", "pw1">>]}
SeedSeq == [convoys |-> 1, vehicles |-> 1, routes |-> 0, users |-> 1]

Init ==
  /\ pc = "idle"
  /\ convoy_a = NoConvoy /\ convoy_b = NoConvoy
  /\ max_extra_minutes = 0 /\ same_dest_radius_km = 0
  /\ ClearedLocals
  /\ db_convoys = SeedConvoys /\ db_vehicles = SeedVehicles
  /\ db_routes = {} /\ db_users = SeedUsers /\ db_seq = SeedSeq
  /\ adding = [w \in Workers |-> Idle]
  /\ store_reply = NoReply
  /\ otp_store = [e \in {} |-> 0]
  /\ now = 0
  /\ auth_reply = NoReply

\* ------------------------------------------------------------------------
\* Actions
\* ------------------------------------------------------------------------
\* POST /suggest_merge arrives: the handler is entered with its parameters
Request ==
  /\ pc = "idle"
  /\ \E a \in ConvoysA, b \in ConvoysB, m \in MaxExtraValues,
        r \in RadiusValues :
       /\ convoy_a' = a /\ convoy_b' = b
       /\ max_extra_minutes' = m /\ same_dest_radius_km' = r
  /\ pc' = "capacity"
  /\ UNCHANGED <<capacityLocals, dest_dist_km, durationsA, durationsB,
                 requests, response>>
  /\ UNCHANGED <<database, storeVars, authVars>>

\* the handler returns body v
Return(v) ==
  /\ response' = <<v>>
  /\ pc' = "done"

\* variant: the absorbed load is booked on the host's snapshot
CapacityGate_booking_load ==
  /\ pc = "capacity"
  /\ LET availA == spare_capacity(convoy_a)
         availB == spare_capacity(convoy_b)
         aAbsorbsB == can_absorb(availA, convoy_b)
         bAbsorbsA == can_absorb(availB, convoy_a)
     IN  /\ avail_a' = Some(availA) /\ avail_b' = Some(availB)
         /\ a_can_absorb_b' = aAbsorbsB
         /\ b_can_absorb_a' = bAbsorbsA
         /\ convoy_a' = IF aAbsorbsB
                        THEN [convoy_a EXCEPT !.total_load_kg = @ + convoy_b.total_load_kg]
                        ELSE convoy_a
         /\ IF no_capacity(aAbsorbsB, bAbsorbsA)
            THEN Return(no_capacity_verdict(availA, availB, convoy_a, convoy_b))
            ELSE pc' = "distance" /\ UNCHANGED response
  /\ UNCHANGED <<convoy_b, max_extra_minutes, same_dest_radius_km,
                 dest_dist_km, durationsA, durationsB, requests>>
  /\ UNCHANGED <<database, storeVars, authVars>>

\* lines 310-330: spare capacities and the capacity gate
CapacityGate ==
  /\ pc = "capacity"
  /\ LET availA == spare_capacity(convoy_a)
         availB == spare_capacity(convoy_b)
         aAbsorbsB == can_absorb(availA, convoy_b)
         bAbsorbsA == can_absorb(availB, convoy_a)
     IN  /\ avail_a' = Some(availA) /\ avail_b' = Some(availB)
         /\ a_can_absorb_b' = aAbsorbsB
         /\ b_can_absorb_a' = bAbsorbsA
         /\ IF no_capacity(aAbsorbsB, bAbsorbsA)
            THEN Return(no_capacity_verdict(availA, availB, convoy_a, convoy_b))
            ELSE pc' = "distance" /\ UNCHANGED response
  /\ UNCHANGED <<params, dest_dist_km, durationsA, durationsB, requests>>
  /\ UNCHANGED <<database, storeVars, authVars>>

\* lines 332-342: destination distance and the distance gate; an exception
\* raised by haversine_km is caught by the handler's except clause (422-426)
DistanceGate ==
  /\ pc = "distance"
  /\ IF haversine_raises(convoy_a.destination_lat, convoy_a.destination_lon,
                         convoy_b.destination_lat, convoy_b.destination_lon)
     THEN /\ Return(error_verdict(TypeErrorMessage))
          /\ UNCHANGED dest_dist_km
     ELSE LET dist == haversine_km(convoy_a.destination_lat, convoy_a.destination_lon,
                                   convoy_b.destination_lat, convoy_b.destination_lon)
          IN  /\ dest_dist_km' = Some(dist)
              /\ IF too_far(dist, same_dest_radius_km)
                 THEN Return(too_far_verdict(dist, same_dest_radius_km))
                 ELSE pc' = "direct_A" /\ UNCHANGED response
  /\ UNCHANGED <<params, capacityLocals, durationsA, durationsB, requests>>
  /\ UNCHANGED <<database, storeVars, authVars>>

\* one call of osrm_duration(points): a single GET, answered by reply
Get(points, reply) ==
  requests' = Append(requests, [coords |-> coords(points), reply |-> reply])

Src(c) == <<c.source_lat, c.source_lon>>
Dst(c) == <<c.destination_lat, c.destination_lon>>

\* variant: a failed query is repeated until the routing service answers
DirectA_retrying ==
  /\ pc = "direct_A"
  /\ \E reply \in OsrmReplies :
       /\ Get(<<Src(convoy_a), Dst(convoy_a)>>, reply)
       /\ direct_dur_A' = osrm_duration(reply)
       /\ pc' = IF reply.kind = "ok" \/ Len(requests) >= 4
                THEN "pickup_A" ELSE "direct_A"
  /\ UNCHANGED <<params, capacityLocals, dest_dist_km, pickup_dur_A, extra_A,
                 durationsB, response>>
  /\ UNCHANGED <<database, storeVars, authVars>>

\* lines 358-361
DirectA ==
  /\ pc = "direct_A"
  /\ \E reply \in OsrmReplies :
       /\ Get(<<Src(convoy_a), Dst(convoy_a)>>, reply)
       /\ direct_dur_A' = osrm_duration(reply)
  /\ pc' = "pickup_A"
  /\ UNCHANGED <<params, capacityLocals, dest_dist_km, pickup_dur_A, extra_A,
                 durationsB, response>>
  /\ UNCHANGED <<database, storeVars, authVars>>

\* variant: A_picks_B is accepted as soon as it is costed within the
\* threshold, without costing B_picks_A
PickupA_returning_early ==
  /\ pc = "pickup_A"
  /\ \E reply \in OsrmReplies :
       LET xA == extra_minutes(direct_dur_A, osrm_duration(reply))
       IN  /\ Get(<<Src(convoy_a), Src(convoy_b), Dst(convoy_a)>>, reply)
           /\ pickup_dur_A' = osrm_duration(reply)
           /\ extra_A' = xA
           /\ IF a_can_absorb_b /\ ~IsNone(xA)
                 /\ within_threshold(Val(xA), max_extra_minutes)
              THEN Return(decide(a_can_absorb_b, xA, FALSE, None,
                                 Val(dest_dist_km), Val(avail_a), Val(avail_b),
                                 max_extra_minutes))
              ELSE pc' = "direct_B" /\ UNCHANGED response
  /\ UNCHANGED <<params, capacityLocals, dest_dist_km, direct_dur_A, durationsB>>
  /\ UNCHANGED <<database, storeVars, authVars>>

\* lines 362-369
PickupA ==
  /\ pc = "pickup_A"
  /\ \E reply \in OsrmReplies :
       /\ Get(<<Src(convoy_a), Src(convoy_b), Dst(convoy_a)>>, reply)
       /\ pickup_dur_A' = osrm_duration(reply)
       /\ extra_A' = extra_minutes(direct_dur_A, osrm_duration(reply))
  /\ pc' = "direct_B"
  /\ UNCHANGED <<params, capacityLocals, dest_dist_km, direct_dur_A,
                 durationsB, response>>
  /\ UNCHANGED <<database, storeVars, authVars>>

\* variant: B's queries are skipped when B cannot absorb A
DirectB_only_if_feasible ==
  /\ pc = "direct_B"
  /\ IF b_can_absorb_a
     THEN /\ \E reply \in OsrmReplies :
               /\ Get(<<Src(convoy_b), Dst(convoy_b)>>, reply)
               /\ direct_dur_B' = osrm_duration(reply)
          /\ pc' = "pickup_B"
          /\ UNCHANGED response
     ELSE /\ Return(decide(a_can_absorb_b, extra_A, b_can_absorb_a, None,
                           Val(dest_dist_km), Val(avail_a), Val(avail_b),
                           max_extra_minutes))
          /\ UNCHANGED <<requests, direct_dur_B>>
  /\ UNCHANGED <<params, capacityLocals, dest_dist_km, durationsA,
                 pickup_dur_B, extra_B>>
  /\ UNCHANGED <<database, storeVars, authVars>>

\* lines 372-375
DirectB ==
  /\ pc = "direct_B"
  /\ \E reply \in OsrmReplies :
       /\ Get(<<Src(convoy_b), Dst(convoy_b)>>, reply)
       /\ direct_dur_B' = osrm_duration(reply)
  /\ pc' = "pickup_B"
  /\ UNCHANGED <<params, capacityLocals, dest_dist_km, durationsA,
                 pickup_dur_B, extra_B, response>>
  /\ UNCHANGED <<database, storeVars, authVars>>

\* lines 376-420: the last query, then the decision
PickupB ==
  /\ pc = "pickup_B"
  /\ \E reply \in OsrmReplies :
       LET xB == extra_minutes(direct_dur_B, osrm_duration(reply))
       IN  /\ Get(<<Src(convoy_b), Src(convoy_a), Dst(convoy_b)>>, reply)
           /\ pickup_dur_B' = osrm_duration(reply)
           /\ extra_B' = xB
           /\ Return(decide(a_can_absorb_b, extra_A, b_can_absorb_a, xB,
                            Val(dest_dist_km), Val(avail_a), Val(avail_b),
                            max_extra_minutes))
  /\ UNCHANGED <<params, capacityLocals, dest_dist_km, durationsA, direct_dur_B>>
  /\ UNCHANGED <<database, storeVars, authVars>>

\* the response has been sent; the handler's frame is gone
Finish ==
  /\ pc = "done"
  /\ pc' = "idle"
  /\ convoy_a' = NoConvoy /\ convoy_b' = NoConvoy
  /\ max_extra_minutes' = 0 /\ same_dest_radius_km' = 0
  /\ avail_a' = None /\ avail_b' = None
  /\ a_can_absorb_b' = FALSE /\ b_can_absorb_a' = FALSE
  /\ dest_dist_km' = None
  /\ direct_dur_A' = None /\ pickup_dur_A' = None /\ extra_A' = None
  /\ direct_dur_B' = None /\ pickup_dur_B' = None /\ extra_B' = None
  /\ requests' = <<>>
  /\ response' = <<>>
  /\ UNCHANGED <<database, storeVars, authVars>>

Next ==
  \/ Request
  \/ CapacityGate
  \/ DistanceGate
  \/ DirectA
  \/ PickupA
  \/ DirectB
  \/ PickupB
  \/ Finish

Spec == Init /\ [][Next]_vars

\* The handler runs to completion on its worker: every step is taken once it
\* can be, and requests.get returns within its 10 s timeout.
Evaluate ==
  CapacityGate \/ DistanceGate \/ DirectA \/ PickupA \/ DirectB \/ PickupB

FairSpec == Spec /\ WF_vars(Evaluate)

\* ------------------------------------------------------------------------
\* Vocabulary of the properties: what the request and the routing service's
\* replies say, read off the parameters and the request log
\* ------------------------------------------------------------------------
Returned == pc = "done"
Verdict == response[1]

GivenSpare(c) == SumCapacity(c.vehicles) - c.total_load_kg
GivenAAbsorbsB == GivenSpare(convoy_a) >= convoy_b.total_load_kg
GivenBAbsorbsA == GivenSpare(convoy_b) >= convoy_a.total_load_kg

GivenDistKnown ==
  NoneCoord \notin {convoy_a.destination_lat, convoy_b.destination_lat}
GivenDist == Abs(convoy_a.destination_lat - convoy_b.destination_lat)

ReplyOk(i) == Len(requests) >= i /\ requests[i].reply.kind = "ok"
ReplyDuration(i) == requests[i].reply.duration[1]

\* both queries of a direction answered with a route
CostedA == ReplyOk(1) /\ ReplyOk(2)
CostedB == ReplyOk(3) /\ ReplyOk(4)
GivenExtraA == (ReplyDuration(2) - ReplyDuration(1)) \div 60
GivenExtraB == (ReplyDuration(4) - ReplyDuration(3)) \div 60

\* a direction that is capacity-feasible and successfully costed
EligibleA == GivenAAbsorbsB /\ CostedA
EligibleB == GivenBAbsorbsA /\ CostedB
EligibleExtras ==
  (IF EligibleA THEN {GivenExtraA} ELSE {}) \cup
  (IF EligibleB THEN {GivenExtraB} ELSE {})
LeastExtra == CHOOSE x \in EligibleExtras : \A y \in EligibleExtras : x <= y

\* the verdict names a direction: in its scenario field and reason (feasible)
\* or in its reason only (threshold exceeded)
NamesScenario ==
  Verdict.reason[1] \in {"feasible with extra time", "Best scenario costs extra"}
NamedScenario == Verdict.reason[2]

\* ------------------------------------------------------------------------
\* Properties
\* ------------------------------------------------------------------------

\* C1  Capacity gate totality: whenever neither convoy's spare capacity
\* (sum of vehicle capacities minus total load, possibly negative) reaches the
\* other's total load, the evaluation returns can_merge = false with the
\* no-spare-capacity reason, for every destination distance (also a missing
\* destination) and without regard to the routing service.
C1_CapacityGateTotality ==
  (Returned /\ ~GivenAAbsorbsB /\ ~GivenBAbsorbsA)
    => /\ Verdict.can_merge = FALSE
       /\ Verdict.reason = <<NoCapacityReason>>

\* an overloaded convoy (negative spare capacity) and a destination beyond the
\* radius, answered by the capacity gate
C1_Witness ==
  /\ Returned /\ ~GivenAAbsorbsB /\ ~GivenBAbsorbsA
  /\ GivenSpare(convoy_a) < 0
  /\ GivenSpare(convoy_b) > 0
  /\ GivenDistKnown /\ GivenDist > same_dest_radius_km
  /\ Verdict.reason = <<NoCapacityReason>>
  /\ Verdict.convoy_a_spare_kg < 0

\* C2  Distance gate precedence: whenever the destinations are further apart
\* than same_dest_radius_km the verdict is infeasible, also when one or both
\* absorption directions are capacity-feasible (the verdict is then the
\* too-far one), and no request has been sent to the routing service when the
\* verdict is returned.
C2_DistanceGatePrecedence ==
  (Returned /\ GivenDistKnown /\ GivenDist > same_dest_radius_km)
    => /\ Verdict.can_merge = FALSE
       /\ requests = <<>>
       /\ (GivenAAbsorbsB \/ GivenBAbsorbsA)
            => Verdict.reason[1] = "Destinations too far apart"

\* 5.001 km against a radius of 5.0 km with both directions capacity-feasible
C2_Witness ==
  /\ Returned /\ GivenDistKnown
  /\ GivenDist > same_dest_radius_km
  /\ round2(GivenDist) = same_dest_radius_km
  /\ GivenAAbsorbsB /\ GivenBAbsorbsA
  /\ Verdict.reason[1] = "Destinations too far apart"
  /\ requests = <<>>

\* C3  Threshold boundary: when a candidate is selected, a selected
\* extra_minutes equal to max_extra_minutes gives can_merge = true and a
\* selected extra_minutes above it gives can_merge = false, however small the
\* excess: the unrounded value is compared.
C3_ThresholdBoundary ==
  (Returned /\ Len(requests) = 4 /\ EligibleExtras # {})
    => /\ LeastExtra = max_extra_minutes => Verdict.can_merge = TRUE
       /\ LeastExtra > max_extra_minutes => Verdict.can_merge = FALSE

\* 30.001 min against 30.0 min: equal after rounding, refused
C3_Witness ==
  /\ Returned /\ Len(requests) = 4 /\ EligibleExtras # {}
  /\ LeastExtra > max_extra_minutes
  /\ round2(LeastExtra) = round2(max_extra_minutes)
  /\ Verdict.can_merge = FALSE
  /\ Verdict.extra_minutes = max_extra_minutes

\* C4  Stable minimum: the direction the verdict names is an eligible one with
\* the least extra_minutes, and when both directions are eligible with equal
\* extra_minutes it is A_picks_B.
C4_StableMinimum ==
  (Returned /\ Len(requests) = 4 /\ EligibleExtras # {})
    => /\ NamesScenario
       /\ NamedScenario = "A_picks_B" => EligibleA /\ GivenExtraA = LeastExtra
       /\ NamedScenario = "B_picks_A" => EligibleB /\ GivenExtraB = LeastExtra
       /\ (EligibleA /\ EligibleB /\ GivenExtraA = GivenExtraB)
            => NamedScenario = "A_picks_B"

\* both directions eligible at the same cost, A_picks_B reported
C4_Witness ==
  /\ Returned /\ Len(requests) = 4
  /\ EligibleA /\ EligibleB /\ GivenExtraA = GivenExtraB
  /\ Verdict.can_merge = TRUE
  /\ Verdict.scenario = "A_picks_B"

\* C5  Oracle failure tolerance: when both gates pass and each of the four
\* queries fails (network error, non-success status, timeout, or a reply
\* without a route), the evaluation returns a verdict with can_merge = false
\* and the could-not-calculate-detour reason.
C5_OracleFailureTolerance ==
  (Returned /\ Len(requests) = 4 /\ \A i \in 1..4 : ~ReplyOk(i))
    => /\ Verdict.can_merge = FALSE
       /\ Verdict.reason = <<NoDetourReason>>

\* the four queries fail in the four different ways
C5_Witness ==
  /\ Returned /\ Len(requests) = 4
  /\ GivenAAbsorbsB /\ GivenBAbsorbsA
  /\ requests[1].reply.kind = "network_error"
  /\ requests[2].reply.kind = "http_error"
  /\ requests[3].reply.kind = "timeout"
  /\ requests[4].reply.kind = "no_routes"
  /\ Verdict.reason = <<NoDetourReason>>
  /\ Verdict.extra_A = None /\ Verdict.extra_B = None

\* C6  A failed query excludes its direction: a direction whose direct or
\* pickup query failed is never the direction the verdict names, and the other
\* direction, when capacity-feasible and costed, is named and decides the
\* verdict by its own extra_minutes against the threshold.
C6_FailedQueryExcludesDirection ==
  (Returned /\ Len(requests) = 4)
    => /\ ~CostedA => ~(NamesScenario /\ NamedScenario = "A_picks_B")
       /\ ~CostedB => ~(NamesScenario /\ NamedScenario = "B_picks_A")
       /\ (~CostedA /\ EligibleB)
            => /\ NamesScenario /\ NamedScenario = "B_picks_A"
               /\ Verdict.can_merge = (GivenExtraB <= max_extra_minutes)
       /\ (~CostedB /\ EligibleA)
            => /\ NamesScenario /\ NamedScenario = "A_picks_B"
               /\ Verdict.can_merge = (GivenExtraA <= max_extra_minutes)

\* A could absorb B but its pickup query timed out; B_picks_A is accepted
C6_Witness ==
  /\ Returned /\ Len(requests) = 4
  /\ GivenAAbsorbsB
  /\ ReplyOk(1) /\ requests[2].reply.kind = "timeout"
  /\ EligibleB
  /\ Verdict.can_merge = TRUE
  /\ Verdict.scenario = "B_picks_A"

\* C7  Verdict characterisation: can_merge = true exactly when the destination
\* distance is within the radius, some direction is capacity-feasible with
\* both its queries answered, and the least extra_minutes of such directions
\* is within max_extra_minutes; the scenario is then such a direction.
C7_VerdictCharacterisation ==
  Returned
    => /\ Verdict.can_merge = TRUE
            <=> /\ GivenDistKnown /\ GivenDist <= same_dest_radius_km
                /\ EligibleExtras # {}
                /\ LeastExtra <= max_extra_minutes
       /\ Verdict.can_merge = TRUE
            => \/ Verdict.scenario = "A_picks_B" /\ EligibleA
               \/ Verdict.scenario = "B_picks_A" /\ EligibleB

\* A cannot absorb B although A's detour is the cheaper one: B_picks_A
C7_Witness ==
  /\ Returned /\ Len(requests) = 4
  /\ ~GivenAAbsorbsB /\ CostedA
  /\ EligibleB /\ GivenExtraA < GivenExtraB
  /\ Verdict.can_merge = TRUE
  /\ Verdict.scenario = "B_picks_A"

\* C8 as claimed: the queries of A_picks_B (the first two requests) are sent
\* only when A can absorb B, those of B_picks_A (the last two) only when B can
\* absorb A.
C8_QueriesOnlyForFeasibleDirection ==
  /\ Len(requests) >= 1 => GivenAAbsorbsB
  /\ Len(requests) >= 3 => GivenBAbsorbsA

CoordsOf(c, which) ==
  IF which = "source" THEN <<c.source_lon, c.source_lat>>
  ELSE <<c.destination_lon, c.destination_lat>>

FourQueries ==
  << <<CoordsOf(convoy_a, "source"), CoordsOf(convoy_a, "destination")>>,
     <<CoordsOf(convoy_a, "source"), CoordsOf(convoy_b, "source"),
       CoordsOf(convoy_a, "destination")>>,
     <<CoordsOf(convoy_b, "source"), CoordsOf(convoy_b, "destination")>>,
     <<CoordsOf(convoy_b, "source"), CoordsOf(convoy_a, "source"),
       CoordsOf(convoy_b, "destination")>> >>

BothGatesPass ==
  /\ GivenAAbsorbsB \/ GivenBAbsorbsA
  /\ GivenDistKnown /\ GivenDist <= same_dest_radius_km

\* C8  Detour costing: the routing service is queried only after both gates
\* have passed; the evaluation then sends all four queries (direct and pickup
\* of A_picks_B, then of B_picks_A) whichever directions are capacity-feasible,
\* and the result of a direction that is not capacity-feasible is discarded:
\* the verdict never names it.
C8_QueriesAfterGates ==
  /\ requests # <<>> => BothGatesPass
  /\ (Returned /\ BothGatesPass)
       => /\ Len(requests) = 4
          /\ \A i \in 1..4 : requests[i].coords = FourQueries[i]
  /\ (Returned /\ NamesScenario)
       => /\ NamedScenario = "A_picks_B" => GivenAAbsorbsB
          /\ NamedScenario = "B_picks_A" => GivenBAbsorbsA

\* B cannot absorb A, yet B's two queries were sent and answered, cheaper than
\* A's; the verdict is A_picks_B
C8_Witness ==
  /\ Returned /\ Len(requests) = 4
  /\ GivenAAbsorbsB /\ ~GivenBAbsorbsA
  /\ CostedA /\ CostedB /\ GivenExtraB < GivenExtraA
  /\ Verdict.can_merge = TRUE
  /\ Verdict.scenario = "A_picks_B"

WinningScenario ==
  IF EligibleA /\ (~EligibleB \/ GivenExtraA <= GivenExtraB)
  THEN "A_picks_B" ELSE "B_picks_A"

\* C9 as claimed: a feasible verdict carries the winning direction,
\* extra_minutes equal to (pickup_duration - direct_duration) / 60 of that
\* direction, the destination distance, both spare capacities and
\* fuel_savings_liters = dest_dist_km * 0.3.
C9_FeasibleVerdictExactFields ==
  (Returned /\ Verdict.can_merge = TRUE)
    => /\ Verdict.scenario = WinningScenario
       /\ Verdict.extra_minutes = LeastExtra
       /\ Verdict.dest_distance_km = GivenDist
       /\ Verdict.convoy_a_spare_kg = GivenSpare(convoy_a)
       /\ Verdict.convoy_b_spare_kg = GivenSpare(convoy_b)
       /\ Verdict.fuel_savings_liters * 10 = GivenDist * 3

\* C9  Every feasible verdict carries the winning direction as scenario and,
\* each rounded to 2 decimals, the extra_minutes
\* (pickup_duration - direct_duration) / 60 of that direction, the destination
\* distance, both spare capacities and dest_dist_km * 0.3 as
\* fuel_savings_liters.
C9_FeasibleVerdictRoundedFields ==
  (Returned /\ Verdict.can_merge = TRUE)
    => /\ Verdict.scenario = WinningScenario
       /\ Verdict.extra_minutes = round2(LeastExtra)
       /\ Verdict.dest_distance_km = round2(GivenDist)
       /\ Verdict.convoy_a_spare_kg = round2(GivenSpare(convoy_a))
       /\ Verdict.convoy_b_spare_kg = round2(GivenSpare(convoy_b))
       /\ Verdict.fuel_savings_liters = round2((GivenDist * 3) \div 10)

\* 30.001 min extra over 4.999 km: reported as 30.0 min, 5.0 km and 1.5 litres
C9_Witness ==
  /\ Returned /\ Verdict.can_merge = TRUE
  /\ LeastExtra = 30 * Unit + 10 /\ Verdict.extra_minutes = 30 * Unit
  /\ GivenDist = 49990 /\ Verdict.dest_distance_km = 5 * Unit
  /\ Verdict.fuel_savings_liters = 15000

\* the evaluation raises: a capacity-feasible pair whose destination
\* coordinates are incomplete reaches haversine_km
Raises == (GivenAAbsorbsB \/ GivenBAbsorbsA) /\ ~GivenDistKnown

FromSelection ==
  Verdict.reason[1] \in
    {NoDetourReason, "feasible with extra time", "Best scenario costs extra"}

\* C11  Every evaluation whose queries each return terminates with exactly one
\* verdict: a started evaluation reaches its return; a response exists only
\* once the handler has returned and is then a single body, never replaced;
\* and a verdict of candidate selection is returned only after all four
\* queries have been answered.
C11_TerminatesWithOneVerdict ==
  /\ [](pc \notin {"idle", "done"} => <>Returned)
  /\ [](response # <<>> <=> Returned)
  /\ [](Len(response) <= 1)
  /\ [][response # <<>> => response' \in {response, <<>>}]_vars
  /\ [](Returned /\ FromSelection => Len(requests) = 4)

\* an evaluation that returned a selection verdict after four answered queries,
\* two of them failed
C11_Witness ==
  /\ Returned /\ Len(response) = 1 /\ FromSelection
  /\ Len(requests) = 4
  /\ ~ReplyOk(1) /\ ~ReplyOk(2) /\ CostedB
  /\ Verdict.can_merge = TRUE

\* C12  No retries: the requests of one evaluation are, in order, a prefix of
\* the four waypoint sequences (direct A, pickup A, direct B, pickup B), so
\* each sequence is sent at most once, at most four requests are made, and a
\* failed request is not repeated.
C12_NoRetries ==
  /\ Len(requests) <= 4
  /\ \A i \in 1..Len(requests) : requests[i].coords = FourQueries[i]

\* the first request timed out and was followed by the other three
C12_Witness ==
  /\ Returned /\ Len(requests) = 4
  /\ requests[1].reply.kind = "timeout"
  /\ ReplyOk(2) /\ ReplyOk(3) /\ ReplyOk(4)
  /\ \A i \in 1..4 : requests[i].coords = FourQueries[i]

\* the body the evaluation owes to its parameters and the replies it got
GivenCosting(costed, extra) == IF costed THEN Some(extra) ELSE None
GivenVerdict ==
  IF ~(GivenAAbsorbsB \/ GivenBAbsorbsA)
  THEN [can_merge |-> FALSE, reason |-> <<NoCapacityReason>>,
        convoy_a_spare_kg |-> round2(GivenSpare(convoy_a)),
        convoy_b_spare_kg |-> round2(GivenSpare(convoy_b)),
        convoy_a_load_kg |-> round2(convoy_a.total_load_kg),
        convoy_b_load_kg |-> round2(convoy_b.total_load_kg)]
  ELSE IF ~GivenDistKnown
  THEN [can_merge |-> FALSE, reason |-> <<"Error", TypeErrorMessage>>]
  ELSE IF GivenDist > same_dest_radius_km
  THEN [can_merge |-> FALSE,
        reason |-> <<"Destinations too far apart", round2(GivenDist),
                     same_dest_radius_km>>,
        dest_distance_km |-> round2(GivenDist)]
  ELSE IF EligibleExtras = {}
  THEN [can_merge |-> FALSE, reason |-> <<NoDetourReason>>,
        extra_A |-> GivenCosting(CostedA, GivenExtraA),
        extra_B |-> GivenCosting(CostedB, GivenExtraB)]
  ELSE IF LeastExtra <= max_extra_minutes
  THEN [can_merge |-> TRUE,
        reason |-> <<"feasible with extra time", WinningScenario, LeastExtra>>,
        scenario |-> WinningScenario,
        extra_minutes |-> round2(LeastExtra),
        dest_distance_km |-> round2(GivenDist),
        fuel_savings_liters |-> round2((GivenDist * 3) \div 10),
        convoy_a_spare_kg |-> round2(GivenSpare(convoy_a)),
        convoy_b_spare_kg |-> round2(GivenSpare(convoy_b))]
  ELSE [can_merge |-> FALSE,
        reason |-> <<"Best scenario costs extra", WinningScenario, LeastExtra,
                     max_extra_minutes>>,
        extra_minutes |-> round2(LeastExtra)]

\* C13  Frame and statelessness: no step of an evaluation changes the two
\* snapshots, the thresholds or any stored row; nothing of an evaluation is
\* left when the next one starts; and the verdict is a function of the
\* snapshots, the thresholds and the replies of the routing service alone, so
\* two evaluations that agree on these return the same verdict.
C13_FrameAndStatelessness ==
  /\ [][pc \notin {"idle", "done"} => params' = params]_vars
  /\ [][database' = database]_vars
  /\ [](pc = "idle" => ClearedLocals)
  /\ [](Returned => Verdict = GivenVerdict)

\* a feasible verdict has been returned; the snapshots are those received and
\* the stored rows those of the start
C13_Witness ==
  /\ Returned /\ Verdict.can_merge = TRUE
  /\ Verdict = GivenVerdict
  /\ convoy_a \in ConvoysA /\ convoy_b \in ConvoysB
  /\ db_convoys = SeedConvoys /\ db_vehicles = SeedVehicles

RegValues == {"KA01", "KA02"}
\* a registration_number that is None or empty
NoReg == ""

\* the bodies of POST /create: name, coordinates present or not, the
\* registration numbers of the vehicles, a route or none
CreatePayloads ==
  [convoy_name : {"bravo"},
   has_coordinates : BOOLEAN,
   vehicles : UNION {[1..n -> RegValues] : n \in 0..MaxVehicles},
   has_route : BOOLEAN]

MissingCoordinates ==
  "Convoy must include source and destination coordinates (lat/lon)."

\* a database as one value: what a transaction works on
Db(convoys, vehicles, routes, seq) ==
  [convoys |-> convoys, vehicles |-> vehicles, routes |-> routes, seq |-> seq]
CurrentDb == Db(db_convoys, db_vehicles, db_routes, db_seq)

\* lines 34-53: INSERT INTO convoys ... RETURNING convoy_id
insert_convoy(db, name) ==
  LET id == db.seq.convoys + 1
  IN  [db EXCEPT !.convoys = @ \cup {[convoy_id |-> id, convoy_name |-> name]},
                 !.seq.convoys = id]

\* lines 57-71 and 143-157: INSERT INTO vehicles ... RETURNING vehicle_id
insert_vehicle(db, convoy_id, reg) ==
  LET id == db.seq.vehicles + 1
  IN  [db EXCEPT !.vehicles = @ \cup {[vehicle_id |-> id, convoy_id |-> convoy_id,
                                       registration_number |-> reg]},
                 !.seq.vehicles = id]

\* lines 89-98: INSERT INTO routes ... RETURNING route_id
insert_route(db, convoy_id) ==
  LET id == db.seq.routes + 1
  IN  [db EXCEPT !.routes = @ \cup {[route_id |-> id, convoy_id |-> convoy_id]},
                 !.seq.routes = id]

\* the statements create_convoy executes, in order
create_statements(payload) ==
  <<"convoy">>
  \o [i \in 1..Len(payload.vehicles) |-> "vehicle"]
  \o (IF payload.has_route THEN <<"route">> ELSE <<>>)

\* the transaction after its first k statements
RECURSIVE staged(_, _, _)
staged(db, payload, k) ==
  IF k = 0 THEN db
  ELSE LET before == staged(db, payload, k - 1)
           convoy_id == before.seq.convoys
       IN  IF k = 1 THEN insert_convoy(before, payload.convoy_name)
           ELSE IF k <= 1 + Len(payload.vehicles)
           THEN insert_vehicle(before, convoy_id, payload.vehicles[k - 1])
           ELSE insert_route(before, convoy_id)

\* variant: each statement is committed as it is executed
rollback_keeping_work(committed, work) == work

\* conn.rollback(): the work of the transaction is discarded
rollback(committed, work) == committed

\* conn.commit()
commit(committed, work) == work

\* lines 28-115: what create_convoy leaves in the database and answers when
\* its first `done` statements succeed; done = Len(statements) + 1 stands for
\* a commit that succeeded too
create_convoy(db, payload, done) ==
  LET n == Len(create_statements(payload))
  IN  IF ~payload.has_coordinates
      THEN [db |-> rollback(db, db),
            reply |-> [op |-> "create_convoy", status |-> 400,
                       detail |-> MissingCoordinates, request |-> payload]]
      ELSE IF done <= n
      THEN [db |-> rollback(db, staged(db, payload, done)),
            reply |-> [op |-> "create_convoy", status |-> 500,
                       detail |-> "database error", request |-> payload]]
      ELSE [db |-> commit(db, staged(db, payload, n)),
            reply |-> [op |-> "create_convoy", status |-> 200,
                       convoy_id |-> db.seq.convoys + 1, request |-> payload]]

SetDb(db) ==
  /\ db_convoys' = db.convoys /\ db_vehicles' = db.vehicles
  /\ db_routes' = db.routes /\ db_seq' = db.seq

\* POST /create
CreateConvoy ==
  /\ db_seq.convoys < MaxConvoyId
  /\ \E payload \in CreatePayloads :
       /\ db_seq.vehicles + Len(payload.vehicles) <= MaxVehicleId
       /\ \E done \in 0..(Len(create_statements(payload)) + 1) :
            LET result == create_convoy(CurrentDb, payload, done)
            IN  /\ SetDb(result.db)
                /\ store_reply' = result.reply
  /\ UNCHANGED <<db_users, adding>>
  /\ UNCHANGED <<mergeVars, authVars>>

ConvoyIds(convoys) == {c.convoy_id : c \in convoys}

\* lines 136-140: SELECT 1 FROM vehicles WHERE convoy_id=.. AND registration_number=..
registration_exists(vehicles, convoy_id, reg) ==
  \E v \in vehicles : v.convoy_id = convoy_id /\ v.registration_number = reg

\* POST /add-vehicle/{convoy_id}, lines 129-140: the two SELECTs of worker w
AddVehicleCheck(w) ==
  /\ adding[w].pc = "idle"
  /\ \E convoy_id \in 1..MaxConvoyId, reg \in RegValues \cup {NoReg} :
       IF convoy_id \notin ConvoyIds(db_convoys)
       THEN /\ store_reply' = [op |-> "add_vehicle", status |-> 404,
                               detail |-> "Convoy not found",
                               convoy_id |-> convoy_id, registration_number |-> reg]
            /\ UNCHANGED adding
       ELSE IF reg # NoReg /\ registration_exists(db_vehicles, convoy_id, reg)
       THEN /\ store_reply' = [op |-> "add_vehicle", status |-> 400,
                               detail |-> "Vehicle registration already exists for this convoy",
                               convoy_id |-> convoy_id, registration_number |-> reg]
            /\ UNCHANGED adding
       ELSE /\ adding' = [adding EXCEPT ![w] =
                            [pc |-> "insert", convoy_id |-> convoy_id,
                             registration_number |-> reg]]
            /\ UNCHANGED store_reply
  /\ UNCHANGED database
  /\ UNCHANGED <<mergeVars, authVars>>

\* lines 143-163: the INSERT of worker w and its commit
AddVehicleInsert(w) ==
  /\ adding[w].pc = "insert"
  /\ db_seq.vehicles < MaxVehicleId
  /\ LET result == insert_vehicle(CurrentDb, adding[w].convoy_id,
                                  adding[w].registration_number)
     IN  /\ SetDb(commit(CurrentDb, result))
         /\ store_reply' = [op |-> "add_vehicle", status |-> 200,
                            vehicle_id |-> db_seq.vehicles + 1,
                            convoy_id |-> adding[w].convoy_id,
                            registration_number |-> adding[w].registration_number]
  /\ adding' = [adding EXCEPT ![w] = Idle]
  /\ UNCHANGED db_users
  /\ UNCHANGED <<mergeVars, authVars>>

\* str(HTTPException(404, "Convoy not found")), the detail of the 500 that
\* "except Exception" raises for it
not_found_text == "404: Convoy not found"

\* lines 286-287 and 295-297: the 404 raised inside the try block is caught by
\* "except Exception" and answered as a 500
delete_not_found(convoy_id) ==
  [op |-> "delete_convoy", status |-> 500,
   detail |-> not_found_text,
   convoy_id |-> convoy_id]

\* DELETE /{convoy_id}, lines 280-300.  The statement deletes from convoys;
\* what the schema does to the convoy's vehicles and routes is not in the
\* handler, their rows are left as they are.
DeleteConvoy ==
  /\ \E convoy_id \in 1..MaxConvoyId :
       IF convoy_id \notin ConvoyIds(db_convoys)
       THEN /\ store_reply' = delete_not_found(convoy_id)
            /\ UNCHANGED db_convoys
       ELSE /\ db_convoys' = {c \in db_convoys : c.convoy_id # convoy_id}
            /\ store_reply' = [op |-> "delete_convoy", status |-> 200,
                               convoy_id |-> convoy_id]
  /\ UNCHANGED <<db_vehicles, db_routes, db_users, db_seq, adding>>
  /\ UNCHANGED <<mergeVars, authVars>>

StoreNext ==
  \/ CreateConvoy
  \/ \E w \in Workers : AddVehicleCheck(w)
  \/ \E w \in Workers : AddVehicleInsert(w)
  \/ DeleteConvoy

StoreSpec == Init /\ [][StoreNext]_vars

\* convoys created and deleted by requests that arrive one after another
ConvoyNext ==
  \/ CreateConvoy
  \/ DeleteConvoy

ConvoySpec == Init /\ [][ConvoyNext]_vars

\* ------------------------------------------------------------------------
\* Claims about the convoy endpoints
\* ------------------------------------------------------------------------
StoredDatabase(convoys, vehicles, routes) ==
  <<convoys, vehicles, routes>>

\* C15: within one convoy no two stored vehicles carry the same registration
\* number, whatever the interleaving of create_convoy and
\* add_vehicle_to_convoy requests.
C15_RegistrationsUnique ==
  \A v1 \in db_vehicles, v2 \in db_vehicles :
    (/\ v1.convoy_id = v2.convoy_id
     /\ v1.registration_number = v2.registration_number
     /\ v1.registration_number \in RegValues)
    => v1.vehicle_id = v2.vehicle_id

\* C16: delete_convoy on an id that is not stored answers 404 'Convoy not
\* found' and leaves the store unchanged; on a stored id it removes exactly
\* that convoy and reports success.
C16_DeleteConvoy ==
  [][DeleteConvoy =>
       LET id == store_reply'.convoy_id
       IN  IF id \in ConvoyIds(db_convoys)
           THEN /\ store_reply'.status = 200
                /\ db_convoys' = {c \in db_convoys : c.convoy_id # id}
           ELSE /\ store_reply'.status = 404
                /\ store_reply'.detail = "Convoy not found"
                /\ StoredDatabase(db_convoys, db_vehicles, db_routes)'
                     = StoredDatabase(db_convoys, db_vehicles, db_routes)]_vars

\* the rows a create_convoy request asks for, under the convoy_id it is given
GivenConvoyRow(payload, id) == [convoy_id |-> id, convoy_name |-> payload.convoy_name]
GivenRegistrations(payload) == {payload.vehicles[i] : i \in DOMAIN payload.vehicles}

\* a step in which a create_convoy request is answered: no other endpoint
\* leaves a create_convoy reply behind when it changes the reply or the store
CreateConvoyAnswered ==
  /\ store_reply'.op = "create_convoy"
  /\ <<store_reply, database>>' # <<store_reply, database>>

\* C17: create_convoy is all or nothing: either the convoy, all its vehicles
\* and its route (when given) are committed together and the request
\* succeeds, or the request fails (400 for missing coordinates included) and
\* no convoy, vehicle or route row remains stored.
C17_CreateAllOrNothing ==
  [][CreateConvoyAnswered =>
       LET payload == store_reply'.request
       IN  IF store_reply'.status = 200
           THEN LET id == store_reply'.convoy_id
                IN  /\ payload.has_coordinates
                    /\ id \notin ConvoyIds(db_convoys)
                    /\ db_convoys' = db_convoys \cup {GivenConvoyRow(payload, id)}
                    /\ db_vehicles \subseteq db_vehicles'
                    /\ \A v \in db_vehicles' \ db_vehicles : v.convoy_id = id
                    /\ Cardinality(db_vehicles' \ db_vehicles) = Len(payload.vehicles)
                    /\ {v.registration_number : v \in db_vehicles' \ db_vehicles}
                         = GivenRegistrations(payload)
                    /\ db_routes \subseteq db_routes'
                    /\ \A r \in db_routes' \ db_routes : r.convoy_id = id
                    /\ Cardinality(db_routes' \ db_routes)
                         = (IF payload.has_route THEN 1 ELSE 0)
           ELSE /\ store_reply'.status \in {400, 500}
                /\ (~payload.has_coordinates => store_reply'.status = 400)
                /\ StoredDatabase(db_convoys, db_vehicles, db_routes)'
                     = StoredDatabase(db_convoys, db_vehicles, db_routes)]_vars

\* a request with vehicles and a route has failed and left nothing behind
C17_Witness ==
  /\ store_reply.op = "create_convoy"
  /\ store_reply.status = 500
  /\ Len(store_reply.request.vehicles) = MaxVehicles
  /\ store_reply.request.has_route
  /\ db_convoys = SeedConvoys /\ db_vehicles = SeedVehicles /\ db_routes = {}

\* ========================================================================
\* The OTP endpoints (src/auth/auth.py)
\* ========================================================================
\* "expires_at": time.time() + 300
OtpLifetime == 300
\* the clock advances by half an OTP lifetime
TickSeconds == OtpLifetime \div 2

NoEmail == ""
NoPhone == <<>>
NoOtp == ""
NoPassword == ""
NameError == "NameError"

\* a@army.in is the registered user, c.army.in does not match EMAIL_REGEX
Emails == {"a@army.in", "b@army.in", "c.army.in"}
\* phone numbers as digit sequences: a mobile number, ten digits that start
\* with 1, five digits
Phones == {<<9, 8, 7, 6, 5, 4, 3, 2, 1, 0>>, <<1, 2, 3, 4, 5, 6, 7, 8, 9, 0>>, <<9, 8, 7, 6, 5>>}
\* values of generate_otp()
Otps == {"111111", "222222"}
Passwords == {"pw1", "pw2"}

\* lines 22-25: re.match(EMAIL_REGEX, email) is not None
is_valid_email(email) == email \in {"a@army.in", "b@army.in"}

\* lines 52 and 167 call validate_email, a name the module neither defines
\* nor imports (the helper of lines 24-25 is is_valid_email): evaluating the
\* call raises NameError
validate_email(email) == NameError

\* lines 29-32: re.match(r"^[6-9]\d{9}$", phone)
validate_phone(phone) ==
  /\ Len(phone) = 10
  /\ phone[1] \in 6..9
  /\ \A i \in 1..Len(phone) : phone[i] \in 0..9

\* src/utils/hashing.py
hash_password(password) == <<"bcrypt", password>>
verify_password(password, hashed) == hashed = hash_password(password)

AuthReply(op, data, status, body) ==
  [op |-> op, request |-> data, status |-> status, body |-> body]
Detail(text) == [detail |-> text]
\* an exception no handler catches: the server answers 500
InternalServerError == Detail("Internal Server Error")

\* otp_store[email] = {...}
put_otp(store, email, otp, t) ==
  [e \in DOMAIN store \cup {email} |->
     IF e = email THEN [otp |-> otp, expires_at |-> t + OtpLifetime] ELSE store[e]]
\* del otp_store[email]
del_otp(store, email) == [e \in DOMAIN store \ {email} |-> store[e]]

UserByEmail(email) == {u \in db_users : u.email = email}

\* POST /register/send-otp, lines 44-69
RegisterSendOtp ==
  /\ \E email \in Emails \cup {NoEmail}, phone \in Phones \cup {NoPhone}, otp \in Otps :
       LET data == [email |-> email, phone_number |-> phone]
           answer(status, body) == AuthReply("register_send_otp", data, status, body)
       IN  IF email = NoEmail \/ phone = NoPhone
           THEN /\ auth_reply' = answer(400, Detail("Email & phone required"))
                /\ UNCHANGED otp_store
           ELSE IF validate_email(email) = NameError
           THEN /\ auth_reply' = answer(500, InternalServerError)
                /\ UNCHANGED otp_store
           ELSE IF ~validate_email(email)
           THEN /\ auth_reply' = answer(400, Detail("Invalid email format"))
                /\ UNCHANGED otp_store
           ELSE IF ~validate_phone(phone)
           THEN /\ auth_reply' = answer(400, Detail("Invalid phone number format"))
                /\ UNCHANGED otp_store
           ELSE /\ otp_store' = put_otp(otp_store, email, otp, now)
                /\ auth_reply' = answer(200, [message |-> "OTP sent successfully",
                                              email |-> email, otp |-> otp])
  /\ UNCHANGED now
  /\ UNCHANGED <<mergeVars, database, storeVars>>

\* lines 81-91 and 206-215: the three checks of an OTP against the store
otp_check(store, email, otp, t) ==
  IF email \notin DOMAIN store THEN "OTP not requested"
  ELSE IF t > store[email].expires_at THEN "OTP expired"
  ELSE IF otp # store[email].otp THEN "Incorrect OTP"
  ELSE "ok"

\* POST /register/verify-otp, lines 77-93
RegisterVerifyOtp ==
  /\ \E email \in Emails \cup {NoEmail}, otp \in Otps \cup {NoOtp} :
       LET data == [email |-> email, otp |-> otp]
           checked == otp_check(otp_store, email, otp, now)
       IN  auth_reply' =
             IF checked # "ok"
             THEN AuthReply("register_verify_otp", data, 400, Detail(checked))
             ELSE AuthReply("register_verify_otp", data, 200,
                            [message |-> "OTP verified successfully"])
  /\ UNCHANGED <<otp_store, now>>
  /\ UNCHANGED <<mergeVars, database, storeVars>>

\* POST /register/complete, lines 101-151
RegisterUser ==
  /\ \E email \in Emails \cup {NoEmail}, phone \in Phones \cup {NoPhone},
        password \in Passwords \cup {NoPassword} :
       LET data == [name |-> "officer", email |-> email, phone_number |-> phone,
                    password |-> password]
           answer(status, body) == AuthReply("register_user", data, status, body)
           user_id == db_seq.users + 1
       IN  IF email \notin DOMAIN otp_store
           THEN /\ auth_reply' = answer(400, Detail("OTP not verified"))
                /\ UNCHANGED <<otp_store, database>>
           ELSE IF email = NoEmail \/ phone = NoPhone \/ password = NoPassword
           THEN /\ auth_reply' = answer(400, Detail("All fields required"))
                /\ UNCHANGED <<otp_store, database>>
           ELSE /\ db_users' = db_users \cup
                      {[user_id |-> user_id, email |-> email,
                        password_hash |-> hash_password(password)]}
                /\ db_seq' = [db_seq EXCEPT !.users = user_id]
                /\ otp_store' = del_otp(otp_store, email)
                /\ auth_reply' = answer(200, [message |-> "Registration successful",
                                              user_id |-> user_id])
                /\ UNCHANGED <<db_convoys, db_vehicles, db_routes>>
  /\ UNCHANGED now
  /\ UNCHANGED <<mergeVars, storeVars>>

\* POST /login/send-otp, lines 160-189
LoginSendOtp ==
  /\ \E email \in Emails \cup {NoEmail}, otp \in Otps :
       LET data == [email |-> email]
           answer(status, body) == AuthReply("login_send_otp", data, status, body)
       IN  IF email = NoEmail
           THEN /\ auth_reply' = answer(400, Detail("Email required"))
                /\ UNCHANGED otp_store
           ELSE IF validate_email(email) = NameError
           THEN /\ auth_reply' = answer(500, InternalServerError)
                /\ UNCHANGED otp_store
           ELSE IF ~validate_email(email)
           THEN /\ auth_reply' = answer(400, Detail("Invalid email format"))
                /\ UNCHANGED otp_store
           ELSE IF UserByEmail(email) = {}
           THEN /\ auth_reply' = answer(404, Detail("User not found"))
                /\ UNCHANGED otp_store
           ELSE /\ otp_store' = put_otp(otp_store, email, otp, now)
                /\ auth_reply' = answer(200, [message |-> "OTP sent for login",
                                              otp |-> otp])
  /\ UNCHANGED now
  /\ UNCHANGED <<mergeVars, database, storeVars>>

\* POST /login/verify-otp, lines 197-244
LoginVerifyOtp ==
  /\ \E email \in Emails \cup {NoEmail}, password \in Passwords \cup {NoPassword},
        otp \in Otps \cup {NoOtp} :
       LET data == [email |-> email, password |-> password, otp |-> otp]
           answer(status, body) == AuthReply("login_verify_otp", data, status, body)
           checked == otp_check(otp_store, email, otp, now)
           users == UserByEmail(email)
       IN  IF email = NoEmail \/ password = NoPassword \/ otp = NoOtp
           THEN /\ auth_reply' = answer(400, Detail("Email, password & OTP are required"))
                /\ UNCHANGED otp_store
           ELSE IF checked # "ok"
           THEN /\ auth_reply' = answer(400, Detail(checked))
                /\ UNCHANGED otp_store
           ELSE IF users = {}
           THEN /\ auth_reply' = answer(404, Detail("User not found"))
                /\ UNCHANGED otp_store
           ELSE IF \A u \in users : ~verify_password(password, u.password_hash)
           THEN /\ auth_reply' = answer(401, Detail("Incorrect password"))
                /\ UNCHANGED otp_store
           ELSE /\ otp_store' = del_otp(otp_store, email)
                /\ auth_reply' = answer(200, [message |-> "Login successful",
                                              user_id |-> (CHOOSE u \in users : TRUE).user_id])
  /\ UNCHANGED now
  /\ UNCHANGED <<mergeVars, database, storeVars>>

\* time.time() moves on
Tick ==
  /\ now < MaxTicks * TickSeconds
  /\ now' = now + TickSeconds
  /\ UNCHANGED <<otp_store, auth_reply>>
  /\ UNCHANGED <<mergeVars, database, storeVars>>

AuthNext ==
  \/ RegisterSendOtp
  \/ RegisterVerifyOtp
  \/ RegisterUser
  \/ LoginSendOtp
  \/ LoginVerifyOtp
  \/ Tick

AuthSpec == Init /\ [][AuthNext]_vars

\* ------------------------------------------------------------------------
\* Claims about the OTP endpoints
\* ------------------------------------------------------------------------
GivenWellFormedEmail(email) == email \in {"a@army.in", "b@army.in"}
GivenTenDigitPhone(phone) == Len(phone) = 10
GivenRegistered(email) == \E u \in db_users : u.email = email
GivenOtpStored(email, t) ==
  /\ email \in DOMAIN otp_store'
  /\ otp_store'[email].otp = auth_reply'.body.otp
  /\ otp_store'[email].expires_at = t + 300

\* C20: register_send_otp, given a well-formed email and a 10-digit phone,
\* and login_send_otp, given the email of an existing user, store an OTP for
\* that email that expires 300 seconds later, in place of any earlier one, and
\* answer with a success message that contains the OTP.
C20_SendOtpStoresAndReturns ==
  [][/\ (/\ RegisterSendOtp
         /\ GivenWellFormedEmail(auth_reply'.request.email)
         /\ GivenTenDigitPhone(auth_reply'.request.phone_number))
        => (/\ auth_reply'.status = 200
            /\ GivenOtpStored(auth_reply'.request.email, now))
     /\ (/\ LoginSendOtp
         /\ GivenRegistered(auth_reply'.request.email))
        => (/\ auth_reply'.status = 200
            /\ GivenOtpStored(auth_reply'.request.email, now))]_vars

\* Both handlers that write otp_store stop at the call of validate_email, so
\* no OTP is ever stored, and neither register_user nor login_verify_otp
\* ever succeeds.
NoOtpIsEverStored ==
  /\ DOMAIN otp_store = {}
  /\ auth_reply.op \in {"register_user", "login_verify_otp", "register_verify_otp"}
       => auth_reply.status # 200

====
